---- MODULE Spec2Model ----
(***************************************************************************)
(* A model of md2png's ImageTreeprocessor (src/src/md2png/__init__.py):    *)
(* the recursive walk over the parsed markdown tree, the word wrap of      *)
(* render_text, the fixed-height image chunks and the final assembly.      *)
(*                                                                         *)
(* The walk is recursive in the source.  Here the call stack is the        *)
(* variable `stack`: a handler that recurses into its children is split at *)
(* handle_children into an _enter action (the code before the call, which  *)
(* pushes the node) and an _exit action (the code after it, which pops     *)
(* it).  The document tree is an input: it is produced on the fly, every   *)
(* _enter action choosing the next child of the node on top of the stack.  *)
(***************************************************************************)
EXTENDS Integers, Sequences, FiniteSets, TLC

----------------------------------------------------------------------------
(* Bounds of the model.                                                    *)

\* Number of nodes of the document tree (the root div not counted).
MaxNodes == 4

\* Depth of the open-node stack, the root div included.
MaxDepth == 4

----------------------------------------------------------------------------
(* Program constants and configuration.                                    *)

BULLET_DIAMETER == 4

IMAGE_BLOCK_HEIGHT == 1000

\* self.config after self.config.update(config): the caller's configuration
\* overrides the defaults.  The one modelled here asks for a large font and
\* large margins, so that a few lines fill an image block of 1000 pixels.
config ==
    [ blockquote_indent       |-> 16,
      code_indent             |-> 16,
      code_font_size          |-> 400,
      font_size               |-> 400,
      hr_padding              |-> 0,
      list_indent             |-> 28,
      list_item_margin_bottom |-> 100,
      bullet_outdent          |-> 8,
      margin_bottom           |-> 400,
      color                   |-> "color",
      link_color              |-> "link_color",
      hr_color                |-> "hr_color" ]

\* The pixel size every font is loaded with (ImageFont.truetype calls).
FontSize(font) ==
    CASE font = "default_font" -> config.font_size
      [] font = "bold_font"    -> config.font_size
      [] font = "italics_font" -> config.font_size
      [] font = "code_font"    -> config.code_font_size
      [] font = "h1_font"      -> config.font_size * 3
      [] font = "h2_font"      -> (config.font_size * 5) \div 2
      [] font = "h3_font"      -> config.font_size * 2
      [] font = "h4_font"      -> (config.font_size * 7) \div 4
      [] font = "h5_font"      -> (config.font_size * 3) \div 2
      [] font = "h6_font"      -> (config.font_size * 5) \div 4

----------------------------------------------------------------------------
(* Text.  A string is a sequence of one-character strings; the absent      *)
(* text of a node (Python's None) is the value None.                       *)

None == <<"None">>

IsWhitespace(c) == c \in {" ", "\n"}

\* re.sub('\s+', ' ', text): every maximal run of whitespace becomes one space.
RECURSIVE compact_whitespace(_)
compact_whitespace(text) ==
    IF text = <<>> THEN <<>>
    ELSE IF IsWhitespace(Head(text))
         THEN IF Len(text) > 1 /\ IsWhitespace(text[2])
              THEN compact_whitespace(Tail(text))
              ELSE <<" ">> \o compact_whitespace(Tail(text))
         ELSE <<Head(text)>> \o compact_whitespace(Tail(text))

\* str.split(sep) with a one-character separator: every separator splits, so
\* leading, trailing and doubled separators yield empty strings, and the
\* result is never empty.
RECURSIVE split(_, _)
split(text, sep) ==
    IF text = <<>> THEN << <<>> >>
    ELSE LET rest == split(Tail(text), sep)
         IN  IF Head(text) = sep
             THEN << <<>> >> \o rest
             ELSE << <<Head(text)>> \o Head(rest) >> \o Tail(rest)

\* " ".join(parts)
RECURSIVE join(_)
join(parts) ==
    IF parts = <<>> THEN <<>>
    ELSE IF Len(parts) = 1 THEN parts[1]
    ELSE parts[1] \o <<" ">> \o join(Tail(parts))

\* parts[i:j] with Python's 0-based, end-exclusive indices.
Slice(parts, i, j) ==
    IF j > Len(parts) THEN SubSeq(parts, i + 1, Len(parts))
    ELSE SubSeq(parts, i + 1, j)

\* draw.textsize(text, font=font) -> (w, h), the measurement of the graphics
\* library: a fixed-pitch measure, every character an eighth of the font
\* size wide and every line as tall as the font size.
textsize(text, font) ==
    << Len(text) * (FontSize(font) \div 8), FontSize(font) >>

Max(a, b) == IF a >= b THEN a ELSE b

----------------------------------------------------------------------------
(* Inputs.                                                                 *)

\* The width specifications a caller passes to md2png: lists of
\* (y-offset, x-offset, width), not necessarily sorted.
WidthSpecs ==
    { << <<0, 0, 200>> >>,
      << <<800, 0, 150>>, <<0, 100, 200>>, <<400, 0, 250>> >>,
      << <<500, 0, 200>> >> }

\* The strings found as text and tail of the nodes of a parsed document
\* (None for no text, <<>> for the empty string): the text of a paragraph
\* or a list item,
Texts ==
    { None,
      <<>>,
      <<"w", "w", " ", "w", "w">>,
      <<"w", "\n", "w">> }

\* of a heading, a strong or a code span (two lines when preformatted),
SpanTexts == { <<"w", "\n", "w">> }

\* and of an anchor.
AnchorTexts == { None, <<"w", "\n", "w">> }

Tails ==
    { None,
      <<>>,
      <<" ", "w">> }

\* The href of an anchor, if it has one: every anchor links to a target of
\* its own, the k-th of them to u<k>.
Href(k) == <<"u">> \o (IF k < 10 THEN << <<"0","1","2","3","4","5","6","7","8","9">>[k + 1] >>
                       ELSE <<"+">>)

HeadingTags == { "h1", "h3" }

----------------------------------------------------------------------------
(* State.                                                                  *)

VARIABLES
    self,     \* the fields of the ImageTreeprocessor
    stack,    \* the open handlers: the nodes whose children are being walked
    pc,       \* where md2png is: "new", "run", "walk", "walked", "done", "raised"
    nodes,    \* number of nodes of the document handled so far
    visited,  \* the link targets of the anchors handled so far, in order
    obs,      \* what the last step drew, printed and returned
    final     \* the image get_image returned

vars == << self, stack, pc, nodes, visited, obs, final >>

\* list.sort() on tuples: ascending, lexicographic.
TupleLess(a, b) ==
    \/ a[1] < b[1]
    \/ a[1] = b[1] /\ a[2] < b[2]
    \/ a[1] = b[1] /\ a[2] = b[2] /\ a[3] < b[3]

RECURSIVE Insert(_, _)
Insert(e, sorted) ==
    IF sorted = <<>> THEN <<e>>
    ELSE IF TupleLess(e, Head(sorted)) THEN <<e>> \o sorted
    ELSE <<Head(sorted)>> \o Insert(e, Tail(sorted))

RECURSIVE sort(_)
sort(seq) == IF seq = <<>> THEN <<>> ELSE Insert(Head(seq), sort(Tail(seq)))

\* max(width_spec, key=lambda x: x[2])[2]
RECURSIVE MaxByWidth(_)
MaxByWidth(width_spec) ==
    IF Len(width_spec) = 1 THEN width_spec[1]
    ELSE LET m == MaxByWidth(Tail(width_spec))
         IN  IF width_spec[1][3] >= m[3] THEN width_spec[1] ELSE m

image_width_of(width_spec) == MaxByWidth(width_spec)[3]

RetNone == [ none |-> TRUE, value |-> <<>> ]

Ret(v) == [ none |-> FALSE, value |-> v ]

\* What one step leaves in obs; a handler works on a record that holds the
\* fields of self together with these.
NoObs ==
    [ op      |-> "",       \* the handler that took the step
      draws   |-> <<>>,     \* the draws made, in order
      printed |-> FALSE,    \* "Image block size too small!" was printed
      ret     |-> RetNone,
                            \* the value the last call returned, none for None
      text    |-> None,     \* the text render_text was called with
      raised  |-> FALSE ]   \* an exception is propagating

Work(fields) == fields @@ NoObs

FieldsOf(s) == [ f \in DOMAIN self |-> s[f] ]

ObsOf(s) == [ f \in DOMAIN NoObs |-> s[f] ]

Raise(s) == [ s EXCEPT !.raised = TRUE ]

\* self.start_x and self.end_x are assigned only in apply_width_spec: they
\* exist once width_spec_index has advanced (their value is 0 until then).
HasBounds(s) == s.width_spec_index >= 0

apply_width_spec(s, h) ==
    IF /\ s.width_spec_index + 1 < Len(s.width_spec)
       /\ s.width_spec[s.width_spec_index + 2][1] <= s.y + h
    THEN LET i == s.width_spec_index + 1
         IN  [ s EXCEPT !.width_spec_index = i,
                        !.start_x = s.width_spec[i + 1][2],
                        !.end_x   = s.width_spec[i + 1][2] + s.width_spec[i + 1][3] ]
    ELSE s

\* ImageTreeprocessor.__init__
Construct(width_spec) ==
    apply_width_spec(
        Work([ image            |-> "None",
               image_x          |-> 0,
               image_y          |-> 0,
               indent           |-> 0,
               links            |-> <<>>,
               list_types       |-> <<>>,
               list_item_nums   |-> <<>>,
               y                |-> 0,
               image_width      |-> image_width_of(width_spec),
               images           |-> <<>>,
               line_height      |-> 0,
               in_pre           |-> FALSE,
               width_spec       |-> sort(width_spec),
               width_spec_index |-> -1,
               start_x          |-> 0,
               end_x            |-> 0 ]),
        0)

SelfFields ==
    { "image", "image_x", "image_y", "indent", "links", "list_types",
      "list_item_nums", "y", "image_width", "images", "line_height", "in_pre",
      "width_spec", "width_spec_index", "start_x", "end_x" }

Init ==
    /\ \E width_spec \in WidthSpecs :
          self = [ f \in SelfFields |-> Construct(width_spec)[f] ]
    /\ stack = <<>>
    /\ pc = "new"
    /\ nodes = 0
    /\ visited = <<>>
    /\ obs = NoObs
    /\ final = [ size |-> <<0, 0>>, pastes |-> <<>> ]

----------------------------------------------------------------------------
(* The image blocks.                                                       *)

newline(s, h) ==
    IF s.raised THEN s
    ELSE IF ~HasBounds(s) THEN Raise(s)
    ELSE LET hh == IF h = -1 THEN s.line_height ELSE h
         IN  [ s EXCEPT !.image_y = s.image_y + hh,
                        !.y = s.y + hh,
                        !.image_x = s.start_x + s.indent,
                        !.line_height = 0 ]

save_image_block(s) ==
    IF s.image /= "None"
    THEN [ s EXCEPT !.images = Append(s.images, s.image_y) ]
    ELSE s

\* new_image_block with the cursor left where it was in the old block.
new_image_block_keeps_cursor(s) ==
    [ save_image_block(s) EXCEPT !.image = "Image" ]

new_image_block(s) ==
    [ save_image_block(s) EXCEPT !.image = "Image", !.image_y = 0 ]

\* ensure_image after apply_width_spec: it returns self.image_draw, or
\* nothing (None) when the block is too small.
image_for(s, h) ==
    IF s.image_y + h > IMAGE_BLOCK_HEIGHT
    THEN IF s.image_y = 0
         THEN [ s EXCEPT !.printed = TRUE, !.ret = RetNone ]
         ELSE [ new_image_block(s) EXCEPT !.ret = Ret(<<"image_draw">>) ]
    ELSE [ s EXCEPT !.ret = Ret(<<"image_draw">>) ]

ensure_image(s, h) == image_for(apply_width_spec(s, h), h)

----------------------------------------------------------------------------
(* Drawing.                                                                *)

\* One call of a drawing primitive on the object ensure_image returned (or on
\* self.image_draw): what was drawn, where, and the column in force.
\* Calling it on None raises AttributeError.
Draw(s, kind, x, top, w, h, more) ==
    [ s EXCEPT !.draws = Append(s.draws,
        [ kind    |-> kind,
          x       |-> x,
          y       |-> s.y,            \* logical y of the cursor
          image_y |-> s.image_y,      \* cursor in the block drawn into
          top     |-> top,            \* y in that block the drawing starts at
          w       |-> w,
          h       |-> h,
          start_x |-> s.start_x,
          end_x   |-> s.end_x,
          index   |-> s.width_spec_index,
          block   |-> Len(s.images) ] @@ more) ]  \* blocks saved before this one

NoMore == [ first |-> 0, last |-> 0, forced |-> FALSE, wrap_end_x |-> 0,
            text |-> <<>>, color |-> "", font |-> "", number |-> 0 ]

\* render_text is entered with this text.
called(s, text) == [ s EXCEPT !.text = text ]

\* The inner loop of render_text: the greatest end_index such that
\* parts[start_index:end_index] still fits left of end_x.
RECURSIVE extend(_, _, _, _, _)
extend(s, parts, start_index, end_index, font) ==
    IF end_index < Len(parts)
    THEN LET w == textsize(join(Slice(parts, start_index, end_index + 1)), font)[1]
         IN  IF s.image_x + w > s.end_x
             THEN end_index
             ELSE extend(s, parts, start_index, end_index + 1, font)
    ELSE end_index

\* self.line_height = max(h, self.line_height)
tallest(s, h) == [ s EXCEPT !.line_height = Max(h, s.line_height) ]

\* The outer loop of render_text in normal mode, from start_index on.
RECURSIVE wrap(_, _, _, _, _, _, _)

\* The end of one turn of the loop, after the fragment of width w is drawn.
wrap_advance(s, parts, end_index, w, color, end_block, font, blocks) ==
    wrap(IF end_index < Len(parts) THEN newline(s, -1)
         ELSE IF end_block THEN newline(s, -1)
         ELSE [ s EXCEPT !.image_x = s.image_x + w ],
         parts, end_index, color, end_block, font, blocks)

\* The fragment parts[start_index:end_index] is drawn on what ensure_image
\* returned; wrap_end_x is the end_x the fragment was measured against.
wrap_draw(s, parts, start_index, end_index, forced, h, wrap_end_x, color, end_block, font, blocks) ==
    LET text_frag == join(Slice(parts, start_index, end_index))
        size      == textsize(text_frag, font)
    IN  IF s.ret.none
        THEN Raise(tallest(s, h))
        ELSE wrap_advance(
                 Draw(tallest(s, h), "text", s.image_x, s.image_y,
                      size[1], size[2],
                      [ first |-> start_index, last |-> end_index,
                        forced |-> forced, wrap_end_x |-> wrap_end_x,
                        text |-> text_frag, color |-> color, font |-> font,
                        number |-> 0 ]),
                 parts, end_index, size[1], color, end_block, font,
                 Append(blocks, << s.image_x, s.y, size[1], size[2] >>))

\* One turn of the loop once the inner loop has stopped at fit; h is the
\* height of the candidate measured last.
wrap_fit(s, parts, start_index, fit, color, end_block, font, blocks) ==
    LET h == textsize(join(Slice(parts, start_index, fit + 1)), font)[2]
    IN  wrap_draw(ensure_image(s, h), parts, start_index,
                  IF fit = start_index THEN start_index + 1 ELSE fit,
                  fit = start_index, h, s.end_x,
                  color, end_block, font, blocks)

wrap(s, parts, start_index, color, end_block, font, blocks) ==
    IF s.raised THEN s
    ELSE IF start_index >= Len(parts) THEN [ s EXCEPT !.ret = Ret(blocks) ]
    ELSE wrap_fit(s, parts, start_index,
                  extend(s, parts, start_index, start_index, font),
                  color, end_block, font, blocks)

\* The loop of render_text in preformatted mode over the lines left.
RECURSIVE pre_lines(_, _, _, _, _)

\* The first of the lines left is drawn on what ensure_image returned.
pre_draw(s, lines, size, color, font, blocks) ==
    IF s.ret.none
    THEN Raise(s)
    ELSE pre_lines(
             newline(tallest(
                 Draw(s, "pre", s.image_x, s.image_y, size[1], size[2],
                      [ NoMore EXCEPT !.text = Head(lines), !.color = color,
                                      !.font = font ]),
                 size[2]), -1),
             Tail(lines), color, font,
             Append(blocks, << s.image_x, s.y, size[1], size[2] >>))

pre_lines(s, lines, color, font, blocks) ==
    IF s.raised THEN s
    ELSE IF lines = <<>> THEN [ s EXCEPT !.ret = Ret(blocks) ]
    ELSE pre_draw(ensure_image(s, textsize(Head(lines), font)[2]), lines,
                  textsize(Head(lines), font), color, font, blocks)

render_text(s, text, color, end_block, font) ==
    IF s.raised THEN s
    ELSE IF text = None THEN [ called(s, text) EXCEPT !.ret = RetNone ]
    ELSE IF s.in_pre
         THEN pre_lines(called(s, text), split(text, "\n"), color, font, <<>>)
         ELSE IF ~HasBounds(s) THEN Raise(called(s, text))
              ELSE wrap(called(s, text), split(compact_whitespace(text), " "),
                        0, color, end_block, font, <<>>)

----------------------------------------------------------------------------
(* The walk.                                                               *)

Blocks == { "p", "hr", "blockquote", "ol", "ul", "pre" } \cup HeadingTags

Inlines == { "a", "strong", "code" }

\* The children the markdown parser gives a node of each tag.
Children(tag) ==
    CASE tag \in { "div", "blockquote" }         -> Blocks
      [] tag \in { "ol", "ul" }                  -> { "li" }
      [] tag = "li"                              -> Inlines \cup { "ol", "ul" }
      [] tag = "p"                               -> Inlines
      [] tag = "pre"                             -> { "code" }
      [] tag = "a"                               -> { "strong" }
      [] tag \in { "strong", "code" }            -> {}

Top == stack[Len(stack)]

Pop(stk) == SubSeq(stk, 1, Len(stk) - 1)

\* The boxes (x, y, w, h) of the text runs a step drew.
RECURSIVE TextBoxes(_)
TextBoxes(draws) ==
    IF draws = <<>> THEN <<>>
    ELSE LET d == Head(draws)
         IN  (IF d.kind \in { "text", "pre" }
              THEN << << d.x, d.y, d.w, d.h >> >> ELSE <<>>)
             \o TextBoxes(Tail(draws))

\* Every open anchor sees the text runs drawn while it is open.
Inside(stk, boxes) ==
    [ i \in DOMAIN stk |->
        IF stk[i].tag = "a" THEN [ stk[i] EXCEPT !.inside = @ \o boxes ]
        ELSE stk[i] ]

\* The frame of a handler that is walking its node's children: the tag of
\* the node, the handler's locals and, for the record, what the handler found
\* on entry, the number of children handled and, for an anchor, the entry
\* of self.links made for it (0 for none), the text runs drawn for its own
\* text and all the text runs drawn since it was entered.
Frame(tag, s0, s, linked) ==
    [ tag   |-> tag,
      own   |-> IF tag = "a" THEN TextBoxes(s.draws) ELSE <<>>,
      entry |-> [ indent         |-> s0.indent,
                  list_types     |-> s0.list_types,
                  list_item_nums |-> s0.list_item_nums,
                  in_pre         |-> s0.in_pre ],
      children |-> 0,
      link   |-> IF linked THEN Len(s.links) ELSE 0,
      inside |-> IF tag = "a" THEN TextBoxes(s.draws) ELSE <<>> ]

\* handle_node(child) may be called for the next child of the open node.
CanHandle(tag) ==
    /\ pc = "walk"
    /\ stack /= <<>>
    /\ tag \in Children(Top.tag)
    /\ nodes < MaxNodes

CanEnter(tag) == CanHandle(tag) /\ Len(stack) < MaxDepth

\* The handler of the open node `tag` resumes after handle_children.
CanExit(tag) == pc = "walk" /\ stack /= <<>> /\ Top.tag = tag

\* The open node has one more child handled.
Child(stk) == [ stk EXCEPT ![Len(stk)].children = @ + 1 ]

\* The effect of a step that leaves the processor as s and the stack as stk.
Step(op, s, stk, next) ==
    /\ self' = FieldsOf(s)
    /\ obs' = [ ObsOf(s) EXCEPT !.op = op ]
    /\ pc' = IF s.raised THEN "raised" ELSE next
    /\ stack' = IF s.raised THEN stack ELSE stk

Enter(tag, s, linked) ==
    /\ Step("handle_" \o tag, s,
            Append(Inside(Child(stack), TextBoxes(s.draws)),
                   Frame(tag, self, s, linked)), "walk")
    /\ nodes' = nodes + 1
    /\ UNCHANGED final

Exit(s) ==
    /\ Step("handle_" \o Top.tag \o "_exit", s,
            Inside(Pop(stack), TextBoxes(s.draws)),
            IF Len(stack) = 1 THEN "walked" ELSE "walk")
    /\ UNCHANGED << nodes, visited, final >>

\* handle_node(root): the root is nobody's child.
Root(s) ==
    /\ Step("handle_div", s, << Frame("div", self, s, FALSE) >>, "walk")
    /\ UNCHANGED << nodes, visited, final >>

Leaf(tag, s) ==
    /\ Step("handle_" \o tag, s, Inside(Child(stack), TextBoxes(s.draws)), "walk")
    /\ nodes' = nodes + 1
    /\ UNCHANGED << visited, final >>

\* run(root), up to handle_node(root)
run ==
    /\ pc = "new"
    /\ Step("run", new_image_block(Work(self)), stack, "run")
    /\ UNCHANGED << nodes, visited, final >>

\* The test and newline at both ends of handle_div.
div_newline(s) ==
    IF ~HasBounds(s) THEN Raise(s)
    ELSE IF s.image_x > s.start_x + s.indent THEN newline(s, -1)
    ELSE s

\* The root of the parsed document is a div.
handle_div_enter ==
    /\ pc = "run"
    /\ Root(div_newline(Work(self)))

handle_div_exit ==
    /\ CanExit("div")
    /\ Exit(div_newline(Work(self)))

\* handle_a, handle_code, handle_strong after handle_children
inline_tail(s, tail) == render_text(s, tail, config.color, FALSE, "default_font")

\* append_link with the new link put in front of self.links.
append_link_in_front(s, href) ==
    IF s.raised THEN s
    ELSE [ s EXCEPT !.links = << [ href |-> href, blocks |-> s.ret ] >> \o s.links ]

\* append_link with an empty list registered in place of the blocks.
append_link_without_blocks(s, href) ==
    IF s.raised THEN s
    ELSE [ s EXCEPT !.links =
               Append(s.links, [ href |-> href, blocks |-> Ret(<<>>) ]) ]

\* self.links.append((node.attrib["href"], blocks)); s.ret is blocks
append_link(s, href) ==
    IF s.raised THEN s
    ELSE [ s EXCEPT !.links =
               Append(s.links, [ href |-> href, blocks |-> s.ret ]) ]

a_text(s, text, href) ==
    IF href /= None
    THEN append_link(render_text(s, text, config.link_color, FALSE,
                                 "default_font"), href)
    ELSE render_text(s, text, config.color, FALSE, "default_font")

handle_a_enter ==
    /\ CanEnter("a")
    /\ \E text \in AnchorTexts, href \in { None, Href(Len(visited) + 1) } :
          /\ Enter("a", a_text(Work(self), text, href), href /= None)
          /\ visited' = IF href /= None THEN Append(visited, href) ELSE visited

handle_a_exit ==
    /\ CanExit("a")
    /\ \E tail \in Tails : Exit(inline_tail(Work(self), tail))

handle_code_enter ==
    /\ CanEnter("code")
    /\ \E text \in SpanTexts :
          /\ Enter("code", render_text(Work(self), text, config.color, FALSE,
                                      "code_font"), FALSE)
          /\ UNCHANGED visited

handle_code_exit ==
    /\ CanExit("code")
    /\ \E tail \in Tails : Exit(inline_tail(Work(self), tail))

handle_strong_enter ==
    /\ CanEnter("strong")
    /\ \E text \in SpanTexts :
          /\ Enter("strong", render_text(Work(self), text, config.color, FALSE,
                                      "bold_font"), FALSE)
          /\ UNCHANGED visited

handle_strong_exit ==
    /\ CanExit("strong")
    /\ \E tail \in Tails : Exit(inline_tail(Work(self), tail))

\* The container handlers: indent and newline on entry, and back on exit.
indent_in(s, indent) == newline([ s EXCEPT !.indent = s.indent + indent ], -1)

\* indent_out with the indent left as it is.
indent_out_forgotten(s, indent) == newline(s, -1)

indent_out(s, indent) == newline([ s EXCEPT !.indent = s.indent - indent ], -1)

handle_blockquote_enter ==
    /\ CanEnter("blockquote")
    /\ Enter("blockquote", indent_in(Work(self), config.blockquote_indent), FALSE)
    /\ UNCHANGED visited

handle_blockquote_exit ==
    /\ CanExit("blockquote")
    /\ Exit(indent_out(Work(self), config.blockquote_indent))

handle_h ==
    \E tag \in HeadingTags :
        /\ CanHandle(tag)
        /\ \E text \in SpanTexts :
              Leaf(tag, newline(render_text(Work(self), text, config.color, TRUE,
                                            tag \o "_font"), -1))

hr_line(s) ==
    Draw(s, "hr", s.start_x + config.hr_padding,
             s.image_y + config.margin_bottom \div 2,
             s.end_x - config.hr_padding - (s.start_x + config.hr_padding), 1,
             [ NoMore EXCEPT !.color = config.hr_color ])

\* handle_hr after its first newline
hr_rule(s) ==
    IF s.raised THEN s ELSE newline(hr_line(s), config.margin_bottom)

handle_hr ==
    /\ CanHandle("hr")
    /\ Leaf("hr", hr_rule(newline(Work(self), -1)))

\* "%d" % n
Digit(d) == << "0", "1", "2", "3", "4", "5", "6", "7", "8", "9" >>[d + 1]

RECURSIVE Decimal(_)
Decimal(n) ==
    IF n < 10 THEN << Digit(n) >>
    ELSE Decimal(n \div 10) \o << Digit(n % 10) >>

\* list[-1]
Last(seq) == seq[Len(seq)]

\* The bullet is drawn on what ensure_image returned.
bullet_draw(s, h) ==
    IF s.ret.none THEN Raise(s)
    ELSE Draw(s, "bullet",
              s.image_x - BULLET_DIAMETER - config.bullet_outdent,
              s.image_y + (h - BULLET_DIAMETER) \div 2,
              BULLET_DIAMETER, BULLET_DIAMETER,
              [ NoMore EXCEPT !.color = config.color ])

li_bullet(s) ==
    bullet_draw(ensure_image(s, textsize(<<"E">>, "default_font")[2]),
                textsize(<<"E">>, "default_font")[2])

\* self.list_item_nums[-1] += 1
next_number(s) == [ s EXCEPT !.list_item_nums[Len(s.list_item_nums)] = @ + 1 ]

\* The ordinal is drawn on what ensure_image returned.
number_draw(s, current_number, size) ==
    IF s.ret.none THEN Raise(s)
    ELSE next_number(
             Draw(s, "number", s.image_x - size[1] - config.bullet_outdent,
                  s.image_y, size[1], size[2],
                  [ NoMore EXCEPT !.text = current_number \o <<".">>,
                                  !.number = Last(s.list_item_nums),
                                  !.color = config.color,
                                  !.font = "default_font" ]))

li_number(s) ==
    number_draw(
        ensure_image(s, textsize(Decimal(Last(s.list_item_nums)),
                                 "default_font")[2]),
        Decimal(Last(s.list_item_nums)),
        textsize(Decimal(Last(s.list_item_nums)), "default_font"))

\* handle_li up to handle_children; it keeps what the marker drew in draws.
li_text(s, text) ==
    render_text(IF Last(s.list_types) = "unordered" THEN li_bullet(s)
                ELSE li_number(s),
                text, config.color, TRUE, "default_font")

handle_li_enter ==
    /\ CanEnter("li")
    /\ \E text \in Texts : Enter("li", li_text(Work(self), text), FALSE)
    /\ UNCHANGED visited

handle_li_exit ==
    /\ CanExit("li")
    /\ Exit(newline(Work(self), config.list_item_margin_bottom))

ol_push(s) ==
    [ s EXCEPT !.list_types = Append(s.list_types, "ordered"),
               !.list_item_nums = Append(s.list_item_nums, 1) ]

\* ol_pop with the counter of the list left on list_item_nums.
ol_pop_keeps_numbers(s) == [ s EXCEPT !.list_types = Pop(s.list_types) ]

ol_pop(s) ==
    [ s EXCEPT !.list_item_nums = Pop(s.list_item_nums),
               !.list_types = Pop(s.list_types) ]

handle_ol_enter ==
    /\ CanEnter("ol")
    /\ Enter("ol", ol_push(indent_in(Work(self), config.list_indent)), FALSE)
    /\ UNCHANGED visited

handle_ol_exit ==
    /\ CanExit("ol")
    /\ Exit(indent_out(ol_pop(Work(self)), config.list_indent))

ul_push(s) == [ s EXCEPT !.list_types = Append(s.list_types, "unordered") ]

ul_pop(s) == [ s EXCEPT !.list_types = Pop(s.list_types) ]

handle_ul_enter ==
    /\ CanEnter("ul")
    /\ Enter("ul", ul_push(indent_in(Work(self), config.list_indent)), FALSE)
    /\ UNCHANGED visited

handle_ul_exit ==
    /\ CanExit("ul")
    /\ Exit(indent_out(ul_pop(Work(self)), config.list_indent))

handle_p_enter ==
    /\ CanEnter("p")
    /\ \E text \in Texts :
          /\ Enter("p", render_text(Work(self), text, config.color, FALSE,
                                   "default_font"), FALSE)
          /\ UNCHANGED visited

p_tail(s, tail) ==
    newline(render_text(s, tail, config.color, TRUE, "default_font"),
            config.margin_bottom)

handle_p_exit ==
    /\ CanExit("p")
    /\ \E tail \in Tails : Exit(p_tail(Work(self), tail))

pre_in(s) == indent_in([ s EXCEPT !.in_pre = TRUE ], config.code_indent)

\* old_in_pre is the local of handle_pre: the flag found on entry.
pre_out(s, old_in_pre) ==
    [ indent_out(s, config.code_indent) EXCEPT !.in_pre = old_in_pre ]

handle_pre_enter ==
    /\ CanEnter("pre")
    /\ Enter("pre", pre_in(Work(self)), FALSE)
    /\ UNCHANGED visited

handle_pre_exit ==
    /\ CanExit("pre")
    /\ Exit(pre_out(Work(self), Top.entry.in_pre))

----------------------------------------------------------------------------
(* The final image.                                                        *)

\* reduce(lambda x, y: x + y[1], self.images, 0)
RECURSIVE reduce_heights(_, _)
reduce_heights(images, acc) ==
    IF images = <<>> THEN acc
    ELSE reduce_heights(Tail(images), acc + Head(images))

\* paste_all with y advanced by the height of the block, not the height used.
RECURSIVE paste_all_by_capacity(_, _, _)
paste_all_by_capacity(images, i, y) ==
    IF i > Len(images) THEN <<>>
    ELSE << [ image |-> i, x |-> 0, y |-> y ] >>
         \o paste_all_by_capacity(images, i + 1, y + IMAGE_BLOCK_HEIGHT)

\* The loop of get_image: image i of self.images is pasted at (0, y).
RECURSIVE paste_all(_, _, _)
paste_all(images, i, y) ==
    IF i > Len(images) THEN <<>>
    ELSE << [ image |-> i, x |-> 0, y |-> y ] >>
         \o paste_all(images, i + 1, y + images[i])

assemble(s) ==
    [ size   |-> << s.image_width, reduce_heights(s.images, 0) >>,
      pastes |-> paste_all(s.images, 1, 0) ]

\* md2png returns img_ext.get_image() once md.convert has returned.
get_image ==
    /\ pc = "walked"
    /\ LET s == save_image_block(Work(self))
       IN  /\ Step("get_image", s, stack, "done")
           /\ final' = assemble(s)
    /\ UNCHANGED << nodes, visited >>

----------------------------------------------------------------------------

Next ==
    \/ run
    \/ handle_div_enter
    \/ handle_div_exit
    \/ handle_a_enter
    \/ handle_a_exit
    \/ handle_code_enter
    \/ handle_code_exit
    \/ handle_strong_enter
    \/ handle_strong_exit
    \/ handle_blockquote_enter
    \/ handle_blockquote_exit
    \/ handle_h
    \/ handle_hr
    \/ handle_li_enter
    \/ handle_li_exit
    \/ handle_ol_enter
    \/ handle_ol_exit
    \/ handle_ul_enter
    \/ handle_ul_exit
    \/ handle_p_enter
    \/ handle_p_exit
    \/ handle_pre_enter
    \/ handle_pre_exit
    \/ get_image

Spec == Init /\ [][Next]_vars

----------------------------------------------------------------------------
(* One processor, several documents.  ImageExtension.extendMarkdown makes  *)
(* the processor once for a Markdown object, and every convert call of     *)
(* that object calls run on it.                                            *)

\* run(root) on a processor that has returned from a walk, up to
\* handle_node(root).  The root of a further document is counted as a node,
\* which bounds the number of documents.
run_again ==
    /\ pc \in { "walked", "done" }
    /\ nodes < MaxNodes
    /\ Step("run", new_image_block(Work(self)), stack, "run")
    /\ nodes' = nodes + 1
    /\ UNCHANGED << visited, final >>

NextReuse ==
    \/ Next
    \/ run_again

SpecReuse == Init /\ [][NextReuse]_vars

----------------------------------------------------------------------------
(* Properties.                                                             *)

\* The draws of the last step that are wrapped text fragments.
TextDraws == { d \in { obs.draws[i] : i \in DOMAIN obs.draws } : d.kind = "text" }

NumberDraws == { d \in { obs.draws[i] : i \in DOMAIN obs.draws } : d.kind = "number" }

\* The greatest right edge xOffset + width of a width specification.
GreatestRightEdge(width_spec) ==
    CHOOSE r \in { width_spec[i][2] + width_spec[i][3] : i \in DOMAIN width_spec } :
        \A i \in DOMAIN width_spec : width_spec[i][2] + width_spec[i][3] <= r

\* The entries of a width specification whose yOffset is the greatest one <= y.
ActiveEntries(width_spec, y) ==
    { e \in { width_spec[i] : i \in DOMAIN width_spec } :
        /\ e[1] <= y
        /\ \A i \in DOMAIN width_spec : width_spec[i][1] <= y => width_spec[i][1] <= e[1] }

\* The sum of the first n used heights.
RECURSIVE UsedBefore(_, _)
UsedBefore(images, n) == IF n = 0 THEN 0 ELSE UsedBefore(images, n - 1) + images[n]

\* C1: the width of the image (of every block and of the final image) is the
\* greatest right edge xOffset + width over the entries of the width-spec.
C1_ImageWidthIsGreatestRightEdge ==
    /\ self.image_width = GreatestRightEdge(self.width_spec)
    /\ pc = "done" => final.size[1] = GreatestRightEdge(self.width_spec)

\* C2: the cursor in the block stays within 0 .. IMAGE_BLOCK_HEIGHT and every
\* block saved records a used height of at most IMAGE_BLOCK_HEIGHT.
C2_CursorWithinBlock ==
    /\ 0 <= self.image_y
    /\ self.image_y <= IMAGE_BLOCK_HEIGHT
    /\ \A i \in DOMAIN self.images : self.images[i] <= IMAGE_BLOCK_HEIGHT

\* C3: get_image saves the open block, returns an image as high as the sum of
\* the used heights of the saved blocks, and pastes block i below the used
\* heights of the blocks before it, in the order they were saved.
C3_FinalImageStacksUsedHeights ==
    pc = "done" =>
        /\ self.images /= <<>>
        /\ Last(self.images) = self.image_y
        /\ final.size[2] = UsedBefore(self.images, Len(self.images))
        /\ Len(final.pastes) = Len(self.images)
        /\ \A i \in DOMAIN final.pastes :
              /\ final.pastes[i].image = i
              /\ final.pastes[i].y = UsedBefore(self.images, i - 1)

C3_Witness ==
    /\ pc = "done"
    /\ Len(self.images) >= 2
    /\ \E i \in DOMAIN self.images : self.images[i] /= IMAGE_BLOCK_HEIGHT

\* C4: a text fragment drawn at logical y is wrapped against, and placed in,
\* the column of the width-spec entry with the greatest yOffset <= y.
C4_FragmentUsesColumnOfItsY ==
    \A d \in TextDraws :
        \A e \in ActiveEntries(self.width_spec, d.y) :
            /\ d.wrap_end_x = e[2] + e[3]
            /\ d.start_x = e[2]
            /\ d.end_x = e[2] + e[3]

\* C5: a draw higher than an empty block is reported and skipped, and the
\* walk goes on.
C5_OversizedDrawIsSkipped == obs.printed => pc /= "raised"

\* C6: a fragment drawn at x is at most end_x - x wide for the column in force
\* when it is drawn, unless it is one single word forced onto the line.
C6_FragmentFitsColumn ==
    \A d \in TextDraws :
        \/ d.w <= d.end_x - d.x
        \/ d.forced /\ d.last = d.first + 1

Containers == { "blockquote", "ol", "ul", "pre" }

Unit(tag) ==
    CASE tag = "blockquote"       -> config.blockquote_indent
      [] tag \in { "ol", "ul" }   -> config.list_indent
      [] tag = "pre"              -> config.code_indent
      [] OTHER                    -> 0

RECURSIVE SumUnits(_)
SumUnits(stk) == IF stk = <<>> THEN 0 ELSE Unit(Head(stk).tag) + SumUnits(Tail(stk))

IndentMirrorsNesting == self.indent = SumUnits(stack)

ContainerReturns ==
    /\ pc = "walk"
    /\ pc' /= "raised"
    /\ stack /= <<>>
    /\ Top.tag \in Containers
    /\ Len(stack') < Len(stack)

\* C8: when the handler of a blockquote, a list or a preformatted block
\* returns, indent, list_types, list_item_nums and in_pre are what they were
\* when it was entered; and the indent is always the sum of the indent units
\* of the open containers.
C8_ContainersRestoreContext ==
    /\ []IndentMirrorsNesting
    /\ [][ ContainerReturns =>
             /\ self'.indent = Top.entry.indent
             /\ self'.list_types = Top.entry.list_types
             /\ self'.list_item_nums = Top.entry.list_item_nums
             /\ self'.in_pre = Top.entry.in_pre ]_vars

C8_Witness ==
    /\ obs.op \in { "handle_ol_exit", "handle_ul_exit", "handle_blockquote_exit",
                    "handle_pre_exit" }
    /\ pc = "walk"
    /\ self.indent > 0
    /\ self.list_types /= <<>>

\* C9: after the walk self.links holds one entry for each anchor with a link
\* target, in the order the anchors were handled, each with its href.
C9_LinksFollowAnchors ==
    pc \in { "walked", "done" } =>
        /\ Len(self.links) = Len(visited)
        /\ \A i \in DOMAIN visited : self.links[i].href = visited[i]

C9_Witness ==
    /\ pc = "done"
    /\ Len(self.links) = 2
    /\ self.links[1].href /= self.links[2].href

\* The open anchors that have an entry in self.links.
OpenLinks == { i \in DOMAIN stack : stack[i].tag = "a" /\ stack[i].link > 0 }

\* C10 as stated: the list registered for an anchor holds the box of every
\* text run drawn inside the anchor, those of its nested children included.
C10_AllRunsInsideRegistered ==
    \A i \in OpenLinks :
        LET blocks == self.links[stack[i].link].blocks
        IN  /\ \A k \in DOMAIN stack[i].inside :
                  \E j \in DOMAIN blocks.value : blocks.value[j] = stack[i].inside[k]
            /\ stack[i].inside /= <<>> => ~blocks.none /\ blocks.value /= <<>>

\* C10 as amended: the list registered for an anchor holds the boxes of the
\* runs drawn for the anchor's own text, and is a list, not empty, whenever
\* such a run was drawn.
C10_OwnRunsRegistered ==
    \A i \in OpenLinks :
        LET blocks == self.links[stack[i].link].blocks
        IN  /\ blocks.value = stack[i].own
            /\ stack[i].own /= <<>> => ~blocks.none

C10_Witness ==
    \E i \in OpenLinks :
        /\ stack[i].own /= <<>>
        /\ Len(stack[i].inside) > Len(stack[i].own)
        /\ self.links[stack[i].link].blocks.value = stack[i].own

\* The wrapped text fragments the last step drew, in the order drawn.
Fragments == SelectSeq(obs.draws, LAMBDA d : d.kind = "text")

\* The word tokens of the text the last step rendered.
Tokens == split(compact_whitespace(obs.text), " ")

\* The last step called render_text on a text, in normal mode.
WrappedText == obs.text /= None /\ ~self.in_pre

\* The fragments drawn are consecutive, non-empty slices of the tokens,
\* starting with the first token.
FragmentsInOrder ==
    /\ \A i \in DOMAIN Fragments :
          /\ Fragments[i].last > Fragments[i].first
          /\ Fragments[i].text =
                 join(Slice(Tokens, Fragments[i].first, Fragments[i].last))
          /\ Fragments[i].first = IF i = 1 THEN 0 ELSE Fragments[i - 1].last

\* C12: render_text in normal mode returns, and the fragments it drew are
\* consecutive slices of at least one token each that start at the first
\* token and end at the last: every token is drawn once, in order.
C12_FragmentsPartitionTokens ==
    WrappedText =>
        /\ pc /= "raised"
        /\ FragmentsInOrder
        /\ Fragments /= <<>>
        /\ Fragments[Len(Fragments)].last = Len(Tokens)

\* The cursor, the line height, the image blocks and the width-spec index.
LayoutOf(fields) ==
    << fields.image_x, fields.y, fields.image_y, fields.line_height,
       fields.image, fields.images, fields.width_spec_index,
       fields.start_x, fields.end_x >>

\* The steps that are one call of render_text with end_block false,
RenderSteps ==
    { "handle_p", "handle_a", "handle_code", "handle_strong",
      "handle_a_exit", "handle_code_exit", "handle_strong_exit" }

\* C13: render_text with no text or with the empty string changes nothing,
\* draws nothing and records no box, with end_block false (the text of a
\* paragraph, the tail of an inline node) and with end_block true (the tail
\* of a paragraph, where handle_p then does only its newline).
C13_AbsentOrEmptyTextIsNoOp ==
    [][ obs'.text \in { None, <<>> } =>
          /\ obs'.op \in RenderSteps =>
                /\ LayoutOf(self') = LayoutOf(self)
                /\ obs'.draws = <<>>
                /\ obs'.ret.value = <<>>
          /\ obs'.op = "handle_p_exit" =>
                /\ LayoutOf(self') =
                      LayoutOf(newline(Work(self), config.margin_bottom))
                /\ obs'.draws = <<>> ]_vars

\* C14: after handle_li has drawn the item's own text the cursor is on the
\* line of the last fragment, right of it, where the first inline child of
\* the item then starts.
C14_ItemTextStaysOnLine ==
    (obs.op = "handle_li" /\ pc /= "raised" /\ obs.text \notin { None, <<>> }) =>
        /\ Fragments /= <<>>
        /\ self.y = Fragments[Len(Fragments)].y
        /\ self.image_x = Fragments[Len(Fragments)].x + Fragments[Len(Fragments)].w

\* C15: whatever is drawn (text fragment, preformatted line, bullet,
\* ordinal, rule) lies inside the image block it is drawn into: the space
\* check was made, and a fresh block started where needed, before the draw.
C15_DrawsFitBlock ==
    \A i \in DOMAIN obs.draws :
        /\ obs.draws[i].top >= 0
        /\ obs.draws[i].top + obs.draws[i].h <= IMAGE_BLOCK_HEIGHT

\* The width-spec index designates an entry of the sorted width-spec, and
\* start_x and end_x are that entry's xOffset and xOffset + width.
ColumnDefined ==
    /\ self.width_spec_index \in 0 .. Len(self.width_spec) - 1
    /\ self.start_x = self.width_spec[self.width_spec_index + 1][2]
    /\ self.end_x = self.width_spec[self.width_spec_index + 1][2]
                      + self.width_spec[self.width_spec_index + 1][3]

\* C16: from construction on a column is defined, and the width-spec index
\* never decreases.
C16_IndexDesignatesColumn ==
    /\ []ColumnDefined
    /\ [][ self'.width_spec_index >= self.width_spec_index ]_vars

\* The y at which get_image, called now, pastes the block a draw went into.
PasteY(d) == assemble(save_image_block(Work(self))).pastes[d.block + 1].y

\* C17: during the walk the logical y is the sum of the used heights of the
\* blocks saved plus the cursor in the open block (once get_image has saved
\* the open block, the sum of all used heights), and the y recorded for a
\* text run is the y at which the run lies in the assembled image.
C17_LogicalYIsFinalImageY ==
    /\ pc /= "done" =>
          self.y = UsedBefore(self.images, Len(self.images)) + self.image_y
    /\ pc = "done" => self.y = UsedBefore(self.images, Len(self.images))
    /\ \A i \in DOMAIN obs.draws :
          obs.draws[i].kind \in { "text", "pre" } =>
              obs.draws[i].y = PasteY(obs.draws[i]) + obs.draws[i].top

C17_Witness ==
    /\ self.image_y > 0
    /\ \E i \in DOMAIN obs.draws :
          /\ obs.draws[i].kind = "text"
          /\ obs.draws[i].block >= 2
          /\ obs.draws[i].y > obs.draws[i].top
          /\ \E j \in DOMAIN self.images : self.images[j] < IMAGE_BLOCK_HEIGHT

\* The last step drew visible text on the line the cursor is on.
TextOnOpenLine ==
    /\ self.line_height > 0
    /\ \E i \in DOMAIN Fragments :
          Fragments[i].w > 0 /\ Fragments[i].y = self.y

\* C18: self.line_height is the greatest height of the text drawn on the
\* open line; a step that moves the cursor down from a line with text on it
\* moves it down by at least that height.
C18_LineLeftByItsHeight ==
    [][ (TextOnOpenLine /\ self'.y /= self.y) =>
            self'.y >= self.y + self.line_height ]_vars

\* C19: run on a processor that has completed a walk starts the new walk
\* where a freshly constructed processor starts it: y 0, cursor at the
\* start, no indent, no open list, no saved block, no link.
C19_RunStartsAfresh ==
    [][ obs'.op = "run" =>
            self' = FieldsOf(new_image_block(Construct(self.width_spec))) ]_vars

====
